---- MODULE Spec2Model ----
(***************************************************************************)
(* Model of the toolgun application (src/main.py, src/hardware.py):        *)
(* App.update, one call per tick of the main loop, with the Tool and       *)
(* GPHardware methods it calls.  Time is counted in quarter seconds; every *)
(* call of time.time() is a clock read, and the clock may advance by a     *)
(* drift out of Drift at any one read of a tick (a tick is far shorter     *)
(* than the unit), so reads inside one tick need not agree.  The main loop  *)
(* paces the ticks with next_frame; Screen's refresh thread, which main()   *)
(* leaves off, runs beside the main tick in SpecScreen.                     *)
(***************************************************************************)
EXTENDS Integers, Sequences, FiniteSets, TLC

\* ---------------------------------------------------------------- bounds
\* 0.5 s (the literal of main.py:313) in time units: the unit is 0.25 s.
HalfSecond == 2
\* Tool.YELLOW_FADE_TIME, 0.5 s in time units.
YELLOW_FADE_TIME == 2
\* App.MAX_TOOLS: the tools whose content App.__init__ loads.
MAX_TOOLS == 60
\* How far past the first clock read a behaviour is followed.
Horizon == 6
\* Longest tool list of the general specification.
MaxTools == 2
\* Largest number of sounds / descriptions of a tool in SpecTool.
MaxSounds == 3
MaxDescriptions == 3
\* Caps of the bookkeeping counters (calls per gesture, presses per tool).
MaxCalls == 2
MaxPresses == 5
\* How many whole rounds of next_tool() the rotation property is tried for.
MaxRounds == 2
\* Most frames the main tick composes beside a running refresh thread.
MaxFrames == 2
\* Most playback handles a tool tracks before a behaviour is left.
MaxPlaybacks == 2
\* Longest flash_duration / spin_duration of SpecPulse, in time units.
MaxPulse == 2
\* Longest sound_replay of SpecReplay, in time units.
MaxReplay == 2

\* During one tick the clock advances by a drift out of this set.
Drift == {0, 1}
\* time.time() when App.__init__ runs: seconds since the epoch, far beyond
\* every timeout, so that "now - 0" is never inside the tap window.
StartTime == 6 * HalfSecond
\* self._trigger_hold = None
None == -1

VARIABLES
    config,             \* App.config and the tools' config (fixed after Init)
    limit,              \* how far a behaviour is followed: last clock value, counted presses
    now,                \* value of the latest clock read
    button_change,      \* App._button_change: the stored trigger state
    current_tool,       \* App._current_tool
    trigger_hold,       \* App._trigger_hold (None or a time)
    was_changing_tool,  \* App._was_changing_tool
    last_trigger,       \* App._last_trigger
    sleep_mode,         \* App._sleep_mode
    sleep_timer,        \* App._sleep_timer
    screen_sleep,       \* Screen._sleep
    image,              \* Screen.image: the tool and the description drawn last
    hardware,           \* GPHardware: _led_flash_end, _motor_spin_end, the LED and motor pins
    fault,              \* the exception that ended the program, "none" while it runs
    tools,              \* per tool: _description_selector, _sound_selector, _replay_timer,
                        \* _init_timer, _playbacks
    ev,                 \* what the latest update() did (calls, commands, reads)
    gest,               \* bookkeeping of the current press..release gesture
    presses,            \* press edges the active tool got since its reset (capped)
    dims,               \* set_sleep(True) calls since the latest edge (capped)
    sound_log,          \* sound indices the active tool selected since its reset
    title,              \* the title blends of the active tool since its reset
    pace,               \* main(): next_frame, beside the schedule start + k / refresh_rate
                        \* and whether a tick ended after its deadline
    display             \* Screen with its refresh thread: where the main tick and the
                        \* thread stand, the frames in image and _image_buffer, the
                        \* surface the thread reads and the frame it presented last

vars == <<config, limit, now, button_change, current_tool, trigger_hold,
          was_changing_tool, last_trigger, sleep_mode, sleep_timer, screen_sleep,
          image, hardware, fault, tools, ev, gest, presses, dims, sound_log, title,
          pace, display>>

\* ------------------------------------------------------------ configuration
\* Tool.__init__: the fields of a tool's config the update logic reads,
\* with the defaults of sound_overlap, light and motor. sounds and
\* descriptions are kept by their length.
ToolConfig(h, d, s, o, r) ==
    [hold |-> h, descriptions |-> d, sounds |-> s, sound_order |-> o, sound_replay |-> r,
     sound_overlap |-> TRUE, light |-> TRUE, motor |-> TRUE]

\* A tool configured with "light": false and "motor": false.
Quiet(c) == [c EXCEPT !.light = FALSE, !.motor = FALSE]
\* A tool configured with "sound_overlap": false.
Solo(c) == [c EXCEPT !.sound_overlap = FALSE]

\* A tap tool with two descriptions, a hold tool, and a hold tool that
\* replays its two sounds in order without overlap; none lights the LED or
\* spins the motor.
Tap   == Quiet(ToolConfig(FALSE, 2, 0, "random", 0))
Beam  == Quiet(ToolConfig(TRUE, 0, 0, "random", 0))
Siren == Solo(Quiet(ToolConfig(TRUE, 0, 2, "selective", 1)))

ToolKinds == {Tap, Beam}

\* The tool lists of length n: the two kinds alternating, from either one.
Alternating(n, first) ==
    [i \in 1 .. n |-> IF (i % 2 = 1) = first THEN Tap ELSE Beam]

ToolLists(maxLen) == {Alternating(n, f) : n \in 1 .. maxLen, f \in BOOLEAN}

\* The slowest refresh_rate (in Hz) whose tick period is below the time unit.
QuickRate == 2 * HalfSecond + 1

\* 1 / config["refresh_rate"] (main.py:373) in time units, rounded down: a
\* period below the unit counts 0, the drift of the tick's reads covers it.
Period == (2 * HalfSecond) \div config.refresh_rate

NumTools == Len(config.tools)
ToolIndices == 0 .. (NumTools - 1)
ToolCfg(i) == config.tools[i + 1]

\* Tool.is_loaded: App.__init__ calls load_content() for the first
\* MAX_TOOLS tools only (main.py:268-271).
Loaded(i) == i < MAX_TOOLS

Min(a, b) == IF a < b THEN a ELSE b

\* ------------------------------------------------------------------- Tool
\* self._playbacks: the tracked handles, counted by is_playing().
NoPlaybacks == [playing |-> 0, done |-> 0]

Tracked(ts, i) == ts[i].playbacks.playing + ts[i].playbacks.done

\* Tool._stop_playbacks (main.py:72-76): every tracked handle is stopped,
\* the list is cleared. audible counts the tool's handles that still sound.
Tool_stop_playbacks(ts, i) ==
    [ts EXCEPT ![i].audible = @ - ts[i].playbacks.playing, ![i].playbacks = NoPlaybacks]

\* Tool.reset (main.py:63-70): the selectors go back to 0, the title fade
\* starts at t, the clock read of line 69, and the playbacks are stopped.
Tool_reset(ts, i, t) ==
    Tool_stop_playbacks([ts EXCEPT ![i].description_selector = 0,
                                   ![i].sound_selector = 0,
                                   ![i].init_timer = t], i)

\* The blend factor of the title (main.py:208) at the clock read t, in
\* units of 1 / YELLOW_FADE_TIME.
Tool_blend(ts, i, t) == Min(t - ts[i].init_timer, YELLOW_FADE_TIME)

\* The end of the title fade never clearing the timer.
Tool_fade_end_never(ts, i, t) == ts

\* The end of the title fade (main.py:209-210); t is the read of line 209.
Tool_fade_end(ts, i, t) ==
    IF t > ts[i].init_timer + YELLOW_FADE_TIME
    THEN [ts EXCEPT ![i].init_timer = None]
    ELSE ts

\* A sound started without stopping the tracked ones, whatever sound_overlap.
Tool_start_playback_overlapping(ts, i) ==
    [ts EXCEPT ![i].playbacks.playing = @ + 1, ![i].audible = @ + 1]

\* The end of Tool._play_sound (main.py:123-125): without sound_overlap
\* the tracked handles are stopped first, then sound.play() is tracked.
Tool_start_playback(ts, i) ==
    LET cut == IF ToolCfg(i).sound_overlap THEN ts ELSE Tool_stop_playbacks(ts, i)
    IN  [cut EXCEPT ![i].playbacks.playing = @ + 1, ![i].audible = @ + 1]

\* Tool._play_sound with the selector left where it is.
Tool_play_sound_same(ts, i, t) ==
    Tool_start_playback([ts EXCEPT ![i].replay_timer = t + ToolCfg(i).sound_replay], i)

\* Tool._play_sound wrapping one index too late.
Tool_play_sound_off_by_one(ts, i, t) ==
    LET c == ToolCfg(i)
        sel == IF c.sound_order = "selective"
               THEN (ts[i].sound_selector + 1) % (c.sounds + 1)
               ELSE ts[i].sound_selector
    IN  Tool_start_playback([ts EXCEPT ![i].sound_selector = sel,
                                       ![i].replay_timer = t + c.sound_replay], i)

\* Tool._play_sound (main.py:113-126), called only with sounds present;
\* t is the clock read of line 126.
Tool_play_sound(ts, i, t) ==
    LET c == ToolCfg(i)
        sel == IF c.sound_order = "selective"
               THEN (ts[i].sound_selector + 1) % c.sounds
               ELSE ts[i].sound_selector
    IN  Tool_start_playback([ts EXCEPT ![i].sound_selector = sel,
                                       ![i].replay_timer = t + c.sound_replay], i)

\* Tool._manage_playbacks (main.py:152-159): the handles that finished
\* are removed from the list.
Tool_manage_playbacks(ts, i) == [ts EXCEPT ![i].playbacks.done = 0]

\* The description index stopping at the last description instead of wrapping.
Tool_next_description_clamped(ts, i) ==
    IF ToolCfg(i).descriptions > 0
    THEN [ts EXCEPT ![i].description_selector = Min(@ + 1, ToolCfg(i).descriptions - 1)]
    ELSE ts

\* The description part of Tool.trigger (main.py:164-166).
Tool_next_description(ts, i) ==
    IF ToolCfg(i).descriptions > 0
    THEN [ts EXCEPT ![i].description_selector = (@ + 1) % ToolCfg(i).descriptions]
    ELSE ts

\* Tool.trigger (main.py:161-173): the description, the sound, the finished
\* playbacks. Its flash_led / spin_motor calls are Tool_pulse.
Tool_trigger(ts, i, t) ==
    LET described == Tool_next_description(ts, i)
    IN  Tool_manage_playbacks(IF ToolCfg(i).sounds > 0
                              THEN Tool_play_sound(described, i, t)
                              ELSE described, i)

\* The replay test of Tool.loop without its test of sound_replay.
Tool_replay_due_any_interval(ts, i, t) ==
    /\ t > ts[i].replay_timer
    /\ ToolCfg(i).sounds > 0

\* The replay test of Tool.loop (main.py:183); t is its clock read.
Tool_replay_due(ts, i, t) ==
    /\ ToolCfg(i).sound_replay # 0
    /\ t > ts[i].replay_timer
    /\ ToolCfg(i).sounds > 0

\* Tool.loop (main.py:181-192) without its flash_led / spin_motor calls;
\* t1 is the read of line 183, t2 that of line 126.
Tool_loop(ts, i, t1, t2) ==
    Tool_manage_playbacks(IF Tool_replay_due(ts, i, t1)
                          THEN Tool_play_sound(ts, i, t2)
                          ELSE ts, i)

\* ------------------------------------------------------------- GPHardware
\* flash_led switching the LED on but keeping an end-time that is set.
flash_led_keeps_end(H, t) ==
    [H EXCEPT !.led = TRUE,
              !.led_flash_end = IF @ = None THEN t + config.flash_duration ELSE @]

\* GPHardware.flash_led (hardware.py:201-204); t is its clock read.
flash_led(H, t) == [H EXCEPT !.led = TRUE, !.led_flash_end = t + config.flash_duration]

\* GPHardware.spin_motor (hardware.py:196-199); t is its clock read.
spin_motor(H, t) == [H EXCEPT !.motor = TRUE, !.motor_spin_end = t + config.spin_duration]

\* The clock reads of the pulses of tool i.
PulseReads(i) ==
    (IF ToolCfg(i).light THEN 1 ELSE 0) + (IF ToolCfg(i).motor THEN 1 ELSE 0)

\* The pulses of Tool.trigger (main.py:175-179) and Tool.loop
\* (main.py:186-190): flash_led with light_up, then spin_motor with
\* motor_spin; T holds their clock reads.
Tool_pulse(H, i, T) ==
    LET l == IF ToolCfg(i).light THEN 1 ELSE 0
        lit == IF ToolCfg(i).light THEN flash_led(H, T[1]) ELSE H
    IN  IF ToolCfg(i).motor THEN spin_motor(lit, T[l + 1]) ELSE lit

\* GPHardware.update (hardware.py:219-227): a pulse whose end-time the
\* clock has passed is switched off; T holds the reads of lines 221 and 225,
\* made only for an end-time that is set.
GPHardware_update(H, T) ==
    LET m == IF H.motor_spin_end # None THEN 1 ELSE 0
        l == IF H.led_flash_end # None THEN 1 ELSE 0
        motor_off == m = 1 /\ T[1] > H.motor_spin_end
        led_off == l = 1 /\ T[m + 1] > H.led_flash_end
    IN  [h |-> [H EXCEPT !.motor_spin_end = IF motor_off THEN None ELSE @,
                         !.motor = IF motor_off THEN FALSE ELSE @,
                         !.led_flash_end = IF led_off THEN None ELSE @,
                         !.led = IF led_off THEN FALSE ELSE @],
         motor_off |-> IF motor_off THEN 1 ELSE 0,
         led_off |-> IF led_off THEN 1 ELSE 0,
         used |-> m + l]

\* -------------------------------------------------------------------- App
\* The tool index stopping at the last tool instead of wrapping.
next_tool_index_clamped(i, n) == IF i + 1 < n THEN i + 1 ELSE i

\* The index arithmetic of App.next_tool (main.py:280).
next_tool_index(i, n) == (i + 1) % n

\* App.next_tool resetting only the tool it switches to.
next_tool_keeps_outgoing(S, t1, t2) ==
    LET j == next_tool_index(S.current_tool, NumTools)
    IN  [S EXCEPT !.tools = Tool_reset(S.tools, j, t2),
                  !.current_tool = j,
                  !.was_changing_tool = TRUE]

\* App.next_tool (main.py:277-284) on the program state S; t1 and t2 are
\* the clock reads of the two reset() calls.
next_tool(S, t1, t2) ==
    LET j == next_tool_index(S.current_tool, NumTools)
    IN  [S EXCEPT !.tools = Tool_reset(Tool_reset(S.tools, S.current_tool, t1), j, t2),
                  !.current_tool = j,
                  !.was_changing_tool = TRUE]

\* The events of one update(): nothing has happened yet.
NoEvents(i) ==
    [edge |-> "none", prev |-> "none", tool |-> i, rendered |-> 0, blend |-> None,
     presented |-> 0, trigger |-> 0, loop |-> 0, reaped |-> 0, cut |-> 0,
     played |-> 0, heard |-> None, switched |-> 0, via |-> "none", equip |-> 0, wake |-> 0, dim |-> 0,
     check |-> 0, led_off |-> 0, motor_off |-> 0]

\* An exception leaves update() and main(): the program ends with the fault.
Crash(S, e, exception) == [s |-> [S EXCEPT !.fault = exception], e |-> e, used |-> 0]

\* The clock reads of a tick that follow its first k reads.
Shift(T, k) == [j \in 1 .. (Len(T) - k) |-> T[j + k]]

\* The wake-up with the deadline reset only when the device was asleep.
wake_up_only_asleep(S, t) ==
    IF S.sleep_mode
    THEN [S EXCEPT !.sleep_timer = t + config.sleep_timeout,
                   !.sleep_mode = FALSE,
                   !.screen_sleep = FALSE]
    ELSE S

\* The wake-up of an edge (main.py:303-309); t is the read of line 303.
wake_up(S, t) ==
    [S EXCEPT !.sleep_timer = t + config.sleep_timeout,
              !.sleep_mode = FALSE,
              !.screen_sleep = IF S.sleep_mode THEN FALSE ELSE @]

\* The playing handles a _play_sound() of tool i stops.
StoppedByPlay(S, i) == IF ToolCfg(i).sound_overlap THEN 0 ELSE S.tools[i].playbacks.playing

\* The press edge (main.py:293-296, 303-309). T is the tick's clock reads:
\* line 126 (with sounds), the pulses, lines 296 and 303. A tool without
\* loaded content has no _sounds to play (main.py:104).
press_edge(S, e, T) ==
    LET i == S.current_tool
        p == IF ToolCfg(i).sounds > 0 THEN 1 ELSE 0
        q == p + PulseReads(i)
        fired == [S EXCEPT !.button_change = TRUE,
                           !.tools = Tool_trigger(S.tools, i, T[1]),
                           !.hardware = Tool_pulse(S.hardware, i, Shift(T, p)),
                           !.trigger_hold = T[q + 1]]
    IN  IF p = 1 /\ ~Loaded(i)
        THEN Crash(S, e, "AttributeError")
        ELSE [s |-> wake_up(fired, T[q + 2]),
              e |-> [e EXCEPT !.edge = "press", !.tool = i, !.trigger = 1, !.played = p,
                              !.heard = IF p = 1 THEN T[1] ELSE None,
                              !.reaped = 1,
                              !.cut = IF p = 1 THEN StoppedByPlay(S, i) ELSE 0,
                              !.wake = IF S.sleep_mode THEN 1 ELSE 0],
              used |-> q + 2]

\* The release edge leaving _was_changing_tool as it is.
release_edge_keeps_changing(S, e, T) ==
    LET let_go == [S EXCEPT !.button_change = FALSE,
                            !.last_trigger = S.trigger_hold,
                            !.trigger_hold = None]
    IN  [s |-> wake_up(let_go, T[1]),
         e |-> [e EXCEPT !.edge = "release",
                         !.equip = IF S.was_changing_tool THEN 1 ELSE 0,
                         !.wake = IF S.sleep_mode THEN 1 ELSE 0],
         used |-> 1]

\* The release edge leaving _trigger_hold as it is.
release_edge_keeps_hold(S, e, T) ==
    LET let_go == [S EXCEPT !.button_change = FALSE,
                            !.last_trigger = S.trigger_hold,
                            !.was_changing_tool = FALSE]
    IN  [s |-> wake_up(let_go, T[1]),
         e |-> [e EXCEPT !.edge = "release",
                         !.equip = IF S.was_changing_tool THEN 1 ELSE 0,
                         !.wake = IF S.sleep_mode THEN 1 ELSE 0],
         used |-> 1]

\* The release edge (main.py:293, 297-309).
release_edge(S, e, T) ==
    LET let_go == [S EXCEPT !.button_change = FALSE,
                            !.last_trigger = S.trigger_hold,
                            !.trigger_hold = None,
                            !.was_changing_tool = FALSE]
    IN  [s |-> wake_up(let_go, T[1]),
         e |-> [e EXCEPT !.edge = "release",
                         !.equip = IF S.was_changing_tool THEN 1 ELSE 0,
                         !.wake = IF S.sleep_mode THEN 1 ELSE 0],
         used |-> 1]

\* The test of the holding branch without the tap window.
hold_switch_due_no_window(S, t1, t2) ==
    t2 > S.trigger_hold + config.tool_change_timeout

\* The test of the holding branch (main.py:313-314); t1, t2 are its two reads.
hold_switch_due(S, t1, t2) ==
    /\ t1 - S.last_trigger < HalfSecond + config.tool_change_timeout
    /\ t2 > S.trigger_hold + config.tool_change_timeout

\* The holding branch (main.py:311-316). The reads of T are taken in the
\* order of the code: line 183 (only with sound_replay # 0), line 126 (only
\* when a sound is replayed), the pulses, lines 313, 314 and 315, and line
\* 69 twice.
holding(S, e, T) ==
    LET i == S.current_tool
        r == IF ToolCfg(i).sound_replay # 0 THEN 1 ELSE 0
        p == IF Tool_replay_due(S.tools, i, T[1]) THEN 1 ELSE 0
        b == r + p
        q == b + PulseReads(i)
        looped == [S EXCEPT !.tools = Tool_loop(S.tools, i, T[1], T[2]),
                            !.hardware = Tool_pulse(S.hardware, i, Shift(T, b))]
        e1 == [e EXCEPT !.tool = i, !.loop = 1, !.played = p, !.reaped = 1,
                        !.heard = IF p = 1 THEN T[2] ELSE None,
                        !.cut = IF p = 1 THEN StoppedByPlay(S, i) ELSE 0]
        \* the second operand of "and" is read only when the first holds
        first == T[q + 1] - S.last_trigger < HalfSecond + config.tool_change_timeout
    IN  IF p = 1 /\ ~Loaded(i)
        THEN Crash(S, e, "AttributeError")
        ELSE IF hold_switch_due(looped, T[q + 1], T[q + 2])
             THEN [s |-> next_tool([looped EXCEPT !.trigger_hold = T[q + 3]],
                                   T[q + 4], T[q + 5]),
                   e |-> [e1 EXCEPT !.switched = 1, !.via = "hold"],
                   used |-> q + 5]
             ELSE [s |-> looped, e |-> e1, used |-> IF first THEN q + 2 ELSE q + 1]

\* The test of the next-tool branch passing only for a tool that does not hold.
timeout_switch_due_tap_only(S, t) ==
    /\ S.trigger_hold # None
    /\ t > S.trigger_hold + config.tool_change_timeout
    /\ ~ToolCfg(S.current_tool).hold

\* The test of the next-tool branch (main.py:318); t is its clock read.
timeout_switch_due(S, t) ==
    /\ S.trigger_hold # None
    /\ t > S.trigger_hold + config.tool_change_timeout

\* The next-tool branch without the restart of the hold timer.
timeout_switch_no_restart(S, e, T) ==
    IF timeout_switch_due(S, T[1])
    THEN [s |-> next_tool(S, T[2], T[3]),
          e |-> [e EXCEPT !.switched = 1, !.via = "timeout"],
          used |-> 3]
    ELSE [s |-> S, e |-> e, used |-> IF S.trigger_hold # None THEN 1 ELSE 0]

\* The next-tool branch (main.py:318-320), reached with the trigger down.
timeout_switch(S, e, T) ==
    IF timeout_switch_due(S, T[1])
    THEN [s |-> next_tool([S EXCEPT !.trigger_hold = T[2]], T[3], T[4]),
          e |-> [e EXCEPT !.switched = 1, !.via = "timeout"],
          used |-> 4]
    ELSE [s |-> S, e |-> e, used |-> IF S.trigger_hold # None THEN 1 ELSE 0]

\* The branches of update() with the holding branch taken by every tool.
handle_trigger_loop_any(S, e, trigger_down, T) ==
    IF trigger_down # S.button_change
    THEN IF trigger_down THEN press_edge(S, e, T) ELSE release_edge(S, e, T)
    ELSE IF trigger_down /\ ~S.was_changing_tool
         THEN holding(S, e, T)
         ELSE IF trigger_down
              THEN timeout_switch(S, e, T)
              ELSE [s |-> S, e |-> e, used |-> 0]

\* The branches of update() on the trigger reading (main.py:291-320).
handle_trigger(S, e, trigger_down, T) ==
    IF trigger_down # S.button_change
    THEN IF trigger_down THEN press_edge(S, e, T) ELSE release_edge(S, e, T)
    ELSE IF trigger_down /\ ToolCfg(S.current_tool).hold /\ ~S.was_changing_tool
         THEN holding(S, e, T)
         ELSE IF trigger_down
              THEN timeout_switch(S, e, T)
              ELSE [s |-> S, e |-> e, used |-> 0]

\* The test of the sleep check without "not already asleep".
sleep_due_again(S, t) == t > S.sleep_timer

\* The test of the sleep check (main.py:322); t is its clock read.
sleep_due(S, t) == t > S.sleep_timer /\ ~S.sleep_mode

\* The sleep check (main.py:322-327).
sleep_check(S, t) ==
    IF sleep_due(S, t)
    THEN [S EXCEPT !.sleep_mode = TRUE, !.screen_sleep = TRUE]
    ELSE S

\* Tool.render of the active tool (main.py:288-289, 194-218), skipped in
\* sleep mode: it asserts that the content is loaded, blends the title
\* while _init_timer is set (the reads of lines 208 and 209), and draws the
\* frame into Screen.image.
App_render(S, e, T) ==
    LET i == S.current_tool
        fading == S.tools[i].init_timer # None
    IN  IF S.sleep_mode
        THEN [s |-> S, e |-> e, used |-> 0]
        ELSE IF ~Loaded(i)
             THEN Crash(S, e, "AssertionError")
             ELSE [s |-> [S EXCEPT !.tools = IF fading
                                             THEN Tool_fade_end(S.tools, i, T[2])
                                             ELSE @,
                                   !.image = [tool |-> i,
                                              description |->
                                                  S.tools[i].description_selector]],
                   e |-> [e EXCEPT !.rendered = 1,
                                   !.blend = IF fading
                                             THEN Tool_blend(S.tools, i, T[1])
                                             ELSE None],
                   used |-> IF fading THEN 2 ELSE 0]

\* The rest of update() after the trigger handling h that made k clock
\* reads: the sleep check (main.py:322-327), hardware.update (main.py:329)
\* and screen.update (main.py:330), which presents Screen.image unless the
\* screen sleeps (hardware.py:96-115).
finish_update(h, k, T) ==
    LET z == T[k + 1]
        slept == sleep_check(h.s, z)
        pins == GPHardware_update(slept.hardware, Shift(T, k + 1))
    IN  [s |-> [slept EXCEPT !.hardware = pins.h],
         e |-> [h.e EXCEPT !.check = z,
                           !.dim = IF sleep_due(h.s, z) THEN 1 ELSE 0,
                           !.led_off = pins.led_off,
                           !.motor_off = pins.motor_off,
                           !.presented = IF slept.screen_sleep THEN 0 ELSE 1],
         now |-> T[k + 1 + pins.used]]

\* App.update (main.py:286-330): render, the trigger, the sleep check, the
\* hardware and the screen. An exception ends the tick where it is raised.
update(S, trigger_down, T) ==
    LET drawn == App_render(S, NoEvents(S.current_tool), T)
        h == IF drawn.s.fault # "none"
             THEN drawn
             ELSE handle_trigger(drawn.s, drawn.e, trigger_down, Shift(T, drawn.used))
        k == IF drawn.s.fault # "none" THEN drawn.used ELSE drawn.used + h.used
    IN  IF h.s.fault # "none"
        THEN [s |-> h.s, e |-> h.e, now |-> IF k = 0 THEN None ELSE T[k]]
        ELSE finish_update(h, k, T)

\* ------------------------------------------------------------ the machine
\* The program state as one record, for the operators above.
State ==
    [button_change |-> button_change, current_tool |-> current_tool,
     trigger_hold |-> trigger_hold, was_changing_tool |-> was_changing_tool,
     last_trigger |-> last_trigger, sleep_mode |-> sleep_mode,
     sleep_timer |-> sleep_timer, screen_sleep |-> screen_sleep, image |-> image,
     hardware |-> hardware, fault |-> fault, tools |-> tools]

\* The clock reads of render() in the current state.
RenderReads == IF ~sleep_mode /\ tools[current_tool].init_timer # None THEN 2 ELSE 0

\* The most clock reads of hardware.update() in a tick from the current state.
HardwareReads ==
    (IF hardware.motor_spin_end # None \/ ToolCfg(current_tool).motor THEN 1 ELSE 0)
    + (IF hardware.led_flash_end # None \/ ToolCfg(current_tool).light THEN 1 ELSE 0)

\* The most clock reads one update() makes on the path the trigger reading
\* selects: render(), the edge or the held branch, the sleep check and
\* hardware.update().
NumReads(trigger_down) ==
    RenderReads + 1 + HardwareReads +
    IF trigger_down # button_change
    THEN IF trigger_down THEN PulseReads(current_tool) + 3 ELSE 1
    ELSE IF trigger_down THEN PulseReads(current_tool) + 7 ELSE 0

\* The clock reads of a tick that makes up to n of them: the clock advances
\* by d at the read numbered at, and stands still at the others.
TickReads(n) ==
    {[k \in 1 .. n |-> IF k >= at THEN now + d ELSE now] : at \in 1 .. n, d \in Drift}

\* The playbacks that end before a tick: n playing handles of one tool.
Endings ==
    {[tool |-> 0, n |-> 0]}
    \cup UNION {{[tool |-> i, n |-> k] : k \in 1 .. tools[i].playbacks.playing} :
                   i \in ToolIndices}

\* The handles of an ending stop sounding: is_playing() is false from now on.
Ended(ts, ending) ==
    IF ending.n = 0 THEN ts
    ELSE [ts EXCEPT ![ending.tool].playbacks = [playing |-> @.playing - ending.n,
                                                done |-> @.done + ending.n],
                    ![ending.tool].audible = @ - ending.n]

\* Bookkeeping of the press..release gesture an update() belongs to: the
\* press, the switches, and the clock read of the latest sound.play().
NextGesture(r) ==
    IF r.e.edge = "press"
    THEN [pressAt |-> r.s.trigger_hold, pressTool |-> r.e.tool, switches |-> 0,
          heard |-> r.e.heard]
    ELSE [gest EXCEPT !.switches = @ + r.e.switched,
                      !.heard = IF r.e.played = 1 THEN r.e.heard ELSE @]

\* The sound indices a selective tool selected since its reset (the latest
\* len(sounds) of them).
NextSoundLog(r) ==
    IF r.e.switched = 1 THEN <<>>
    ELSE IF r.e.played = 1 /\ ToolCfg(r.e.tool).sound_order = "selective"
         THEN LET n == ToolCfg(r.e.tool).sounds
                  kept == IF Len(sound_log) = n THEN Tail(sound_log) ELSE sound_log
              IN  Append(kept, r.s.tools[r.e.tool].sound_selector)
         ELSE sound_log

\* The title blends of the active tool since its reset: the latest factor
\* and the number of blends with factor 1.
NextTitle(r) ==
    IF r.e.switched = 1 THEN [blend |-> None, full |-> 0]
    ELSE IF r.e.blend # None
         THEN [blend |-> r.e.blend,
               full |-> Min(title.full + (IF r.e.blend = YELLOW_FADE_TIME THEN 1 ELSE 0),
                            MaxCalls)]
         ELSE title

\* The program variables have the values of the record S.
Program(S) ==
    /\ button_change = S.button_change
    /\ current_tool = S.current_tool
    /\ trigger_hold = S.trigger_hold
    /\ was_changing_tool = S.was_changing_tool
    /\ last_trigger = S.last_trigger
    /\ sleep_mode = S.sleep_mode
    /\ sleep_timer = S.sleep_timer
    /\ screen_sleep = S.screen_sleep
    /\ image = S.image
    /\ hardware = S.hardware
    /\ fault = S.fault
    /\ tools = S.tools

\* What time.sleep() of main.py:372 takes beyond the time asked for, up to
\* the clock read of line 373. With a period below the unit it is part of
\* the drift of the tick's reads.
Overshoot == IF Period = 0 THEN {0} ELSE Drift

\* The clock read of main.py:373 after the update() with the outcome r:
\* time.sleep(max(next_frame - time.time(), 0)) returns at the deadline or,
\* after it, at once, and may overshoot. An exception skips the sleep.
Wakes(r) ==
    IF r.s.fault # "none"
    THEN {IF r.now = None THEN now ELSE r.now}
    ELSE {(IF pace.next_frame > r.now THEN pace.next_frame ELSE r.now) + d : d \in Overshoot}

\* next_frame = time.time() + 1 / refresh_rate (main.py:373) with the clock
\* read wake, beside the deadline the schedule start + k / refresh_rate
\* gives for the same tick and whether an update() ended after its deadline.
Paced(r, wake) ==
    IF r.s.fault # "none" THEN pace
    ELSE [next_frame |-> wake + Period,
          due |-> pace.due + Period,
          overrun |-> pace.overrun \/ r.now > pace.next_frame]

\* The work of one tick of the main loop (main.py:365-373), while no
\* exception has ended it: a call of App.update with a trigger reading of
\* hardware.is_trigger_down, the clock drifting, and playbacks having ended
\* since the tick before; then the sleep up to the tick's deadline and the
\* next deadline.
Ticked ==
    /\ fault = "none"
    /\ \E trigger_down \in BOOLEAN :
         \E ending \in Endings :
         \E T \in TickReads(NumReads(trigger_down)) :
         \E r \in {update([State EXCEPT !.tools = Ended(tools, ending)], trigger_down, T)} :
         \E wake \in Wakes(r) :
            /\ wake <= limit.time
            /\ Tracked(r.s.tools, current_tool) <= MaxPlaybacks
            /\ now' = wake
            /\ pace' = Paced(r, wake)
            /\ button_change' = r.s.button_change
            /\ current_tool' = r.s.current_tool
            /\ trigger_hold' = r.s.trigger_hold
            /\ was_changing_tool' = r.s.was_changing_tool
            /\ last_trigger' = r.s.last_trigger
            /\ sleep_mode' = r.s.sleep_mode
            /\ sleep_timer' = r.s.sleep_timer
            /\ screen_sleep' = r.s.screen_sleep
            /\ image' = r.s.image
            /\ hardware' = r.s.hardware
            /\ fault' = r.s.fault
            /\ tools' = r.s.tools
            /\ ev' = [r.e EXCEPT !.prev = ev.edge]
            /\ gest' = NextGesture(r)
            /\ presses' = IF r.e.switched = 1 THEN 0
                          ELSE IF r.e.edge = "press" THEN Min(presses + 1, limit.presses)
                          ELSE presses
            /\ dims' = IF r.e.edge # "none" THEN r.e.dim ELSE Min(dims + r.e.dim, MaxCalls)
            /\ sound_log' = NextSoundLog(r)
            /\ title' = NextTitle(r)
            /\ UNCHANGED <<config, limit>>

\* A tick of the main loop of the program as it is started (main.py:261-262
\* leave the refresh thread off): nothing runs beside it, and screen.update()
\* presents Screen.image itself.
Update ==
    /\ ~display.thread
    /\ Ticked
    /\ UNCHANGED display

\* ----------------------------------------------------- the refresh thread
\* Screen.__init__ (hardware.py:38-46) and, with thread, start_thread
\* (hardware.py:72-77): both surfaces hold the black frame 0, the main tick
\* is at its start and the thread before its first update(True).
Screen_init(thread, simulated) ==
    [thread |-> thread, simulated |-> simulated, main |-> "tick", updator |-> "sleep",
     reads |-> "none", clean |-> TRUE,
     image |-> [frame |-> 0, whole |-> TRUE],
     buffer |-> [frame |-> 0, whole |-> TRUE],
     shown |-> [frame |-> 0, whole |-> TRUE]]

\* The surface the main tick is writing: Tool.render pastes into
\* Screen.image (main.py:202-218), Screen.update() of the main tick pastes
\* into Screen._image_buffer (hardware.py:99).
Written == IF display.main = "render" THEN "image"
           ELSE IF display.main = "copy" THEN "buffer" ELSE "none"

\* The surface update(True) reads (hardware.py:102-115): the simulator
\* presents self.image, the hardware self._image_buffer unless _sleep is set.
Presented == IF display.simulated THEN "image"
             ELSE IF screen_sleep THEN "none" ELSE "buffer"

\* Neither thread takes a lock, and a paste, like a presentation, is no
\* single step of the interpreter: each has a beginning and an end, and the
\* other thread runs in between.

\* The main tick enters Tool.render (main.py:288-289, 202): the first paste
\* into Screen.image starts; a read of the image under way is no longer clean.
MainRender ==
    /\ display.thread /\ display.main = "tick" /\ fault = "none"
    /\ ~sleep_mode
    /\ display.image.frame < MaxFrames
    /\ display' = [display EXCEPT !.main = "render", !.image.whole = FALSE,
                                  !.clean = IF display.reads = "image" THEN FALSE ELSE @]
    /\ UNCHANGED <<config, limit, now, button_change, current_tool, trigger_hold,
                   was_changing_tool, last_trigger, sleep_mode, sleep_timer, screen_sleep,
                   image, hardware, fault, tools, ev, gest, presses, dims, sound_log, title,
                   pace>>

\* In sleep mode the main tick skips render() (main.py:288).
MainSkipRender ==
    /\ display.thread /\ display.main = "tick" /\ fault = "none"
    /\ sleep_mode
    /\ display' = [display EXCEPT !.main = "drawn"]
    /\ UNCHANGED <<config, limit, now, button_change, current_tool, trigger_hold,
                   was_changing_tool, last_trigger, sleep_mode, sleep_timer, screen_sleep,
                   image, hardware, fault, tools, ev, gest, presses, dims, sound_log, title,
                   pace>>

\* Tool.render returns (main.py:218): the next frame stands in Screen.image.
MainRendered ==
    /\ display.main = "render"
    /\ display' = [display EXCEPT !.main = "drawn",
                                  !.image = [frame |-> @.frame + 1, whole |-> TRUE]]
    /\ UNCHANGED <<config, limit, now, button_change, current_tool, trigger_hold,
                   was_changing_tool, last_trigger, sleep_mode, sleep_timer, screen_sleep,
                   image, hardware, fault, tools, ev, gest, presses, dims, sound_log, title,
                   pace>>

\* The rest of update() up to Screen.update() (main.py:291-330), which with a
\* thread running starts the paste of self.image into self._image_buffer
\* (hardware.py:98-99); a read of the buffer under way is no longer clean.
MainCopy ==
    /\ display.main = "drawn"
    /\ Ticked
    /\ display' = [display EXCEPT !.main = "copy", !.buffer.whole = FALSE,
                                  !.clean = IF display.reads = "buffer" THEN FALSE ELSE @]

\* The paste into the buffer ends and Screen.update() returns
\* (hardware.py:99-100): the tick is over.
MainCopied ==
    /\ display.main = "copy"
    /\ display' = [display EXCEPT !.main = "tick", !.buffer = display.image]
    /\ UNCHANGED <<config, limit, now, button_change, current_tool, trigger_hold,
                   was_changing_tool, last_trigger, sleep_mode, sleep_timer, screen_sleep,
                   image, hardware, fault, tools, ev, gest, presses, dims, sound_log, title,
                   pace>>

\* The thread calls update(True) (hardware.py:90-91) and starts to read the
\* surface it presents; the read is clean unless that surface is being
\* written.
ThreadShow ==
    /\ display.thread /\ display.updator = "sleep"
    /\ Presented # "none"
    /\ display' = [display EXCEPT !.updator = "show", !.reads = Presented,
                                  !.clean = Written # Presented]
    /\ UNCHANGED <<config, limit, now, button_change, current_tool, trigger_hold,
                   was_changing_tool, last_trigger, sleep_mode, sleep_timer, screen_sleep,
                   image, hardware, fault, tools, ev, gest, presses, dims, sound_log, title,
                   pace>>

\* The presentation ends (hardware.py:103-105, 115) and the thread sleeps
\* (hardware.py:92-93): the frame shown is whole when the read was clean.
ThreadShown ==
    /\ display.updator = "show"
    /\ display' = [display EXCEPT
                      !.updator = "sleep", !.reads = "none", !.clean = TRUE,
                      !.shown = [frame |-> display[display.reads].frame,
                                 whole |-> display.clean /\ display[display.reads].whole]]
    /\ UNCHANGED <<config, limit, now, button_change, current_tool, trigger_hold,
                   was_changing_tool, last_trigger, sleep_mode, sleep_timer, screen_sleep,
                   image, hardware, fault, tools, ev, gest, presses, dims, sound_log, title,
                   pace>>

NextScreen ==
    \/ MainRender \/ MainSkipRender \/ MainRendered \/ MainCopy \/ MainCopied
    \/ ThreadShow \/ ThreadShown

\* The program state after App.__init__ (main.py:242-271), Tool.__init__
\* (main.py:38-61) and GPHardware.__init__ for the configuration cfg.
Constructed(cfg) ==
    [button_change |-> FALSE, current_tool |-> 0, trigger_hold |-> None,
     was_changing_tool |-> FALSE, last_trigger |-> 0, sleep_mode |-> FALSE,
     sleep_timer |-> StartTime + cfg.sleep_timeout, screen_sleep |-> FALSE,
     image |-> [tool |-> None, description |-> None],
     hardware |-> [led_flash_end |-> None, motor_spin_end |-> None,
                   led |-> FALSE, motor |-> FALSE],
     fault |-> "none",
     tools |-> [i \in 0 .. (Len(cfg.tools) - 1) |->
                  [description_selector |-> 0, sound_selector |-> 0,
                   replay_timer |-> StartTime, init_timer |-> StartTime,
                   playbacks |-> NoPlaybacks, audible |-> 0]]]

\* The start of the program for a configuration out of the given sets; a
\* behaviour is followed up to the clock value StartTime + span, and presses
\* are counted up to counted.
InitProgram(toolLists, timeouts, sleeps, pulses, rates, span, counted) ==
    /\ config \in [tools : toolLists, tool_change_timeout : timeouts, sleep_timeout : sleeps,
                   flash_duration : pulses, spin_duration : pulses, refresh_rate : rates]
    /\ limit = [time |-> StartTime + span, presses |-> counted]
    /\ now = StartTime
    /\ Program(Constructed(config))
    /\ ev = NoEvents(0)
    /\ gest = [pressAt |-> None, pressTool |-> 0, switches |-> 0, heard |-> None]
    /\ presses = 0
    /\ dims = 0
    /\ sound_log = <<>>
    /\ title = [blend |-> None, full |-> 0]
    /\ pace = [next_frame |-> StartTime, due |-> StartTime, overrun |-> FALSE]

\* The program as main() starts it: without the refresh thread, on the
\* hardware.
InitRated(toolLists, timeouts, sleeps, pulses, rates, span, counted) ==
    /\ InitProgram(toolLists, timeouts, sleeps, pulses, rates, span, counted)
    /\ display = Screen_init(FALSE, FALSE)

\* The same with a refresh_rate whose period is below the time unit.
InitWith(toolLists, timeouts, sleeps, pulses, span, counted) ==
    InitRated(toolLists, timeouts, sleeps, pulses, {QuickRate}, span, counted)

Init == InitWith(ToolLists(MaxTools), {1, 2}, {0, 2}, {1}, Horizon, 1)

Next == Update

Spec == Init /\ [][Next]_vars


\* A hold tool and a tap tool with toolChangeTimeout = 1 s and sleepTimeout =
\* 5 s, followed long enough for a hold of 2.5 s.
InitHold ==
    InitWith({<<Beam, Tap>>, <<Beam>>}, {2 * HalfSecond}, {10 * HalfSecond}, {1},
             2 * Horizon, 1)

SpecHold == InitHold /\ [][Next]_vars

\* One tool of every shape: hold or not, with 0..MaxDescriptions
\* descriptions, or with 1..MaxSounds sounds in sequential order without
\* overlap (a hold tool replays its sound); a tap tool with the same sounds
\* in random order, overlapping; a tap tool with descriptions and sounds.
SingleTools ==
    {<<Solo(Quiet(ToolConfig(h, d, 0, "selective", 0)))>> :
        h \in BOOLEAN, d \in 0 .. MaxDescriptions}
    \cup {<<Solo(Quiet(ToolConfig(h, 0, n, "selective", IF h THEN 1 ELSE 0)))>> :
        h \in BOOLEAN, n \in 1 .. MaxSounds}
    \cup {<<Quiet(ToolConfig(FALSE, 0, n, "random", 0))>> : n \in 1 .. MaxSounds}
    \cup {<<Quiet(ToolConfig(FALSE, 2, 2, "selective", 0))>>}

InitTool ==
    InitWith(SingleTools, {2}, {10 * HalfSecond}, {1}, Horizon - 3, MaxPresses)

SpecTool == InitTool /\ [][Next]_vars

\* One more tool than MaxTools, so that a switch leaves a tool out: tap
\* tools and hold tools with sounds alternating, from either one.
RoundLists ==
    {[i \in 1 .. (MaxTools + 1) |-> IF (i % 2 = 1) = f THEN Tap ELSE Siren] : f \in BOOLEAN}

InitRound == InitWith(RoundLists, {1}, {10 * HalfSecond}, {1}, Horizon, 1)

SpecRound == InitRound /\ [][Next]_vars

\* A hold tool with the default light and motor, for every flash_duration
\* and spin_duration up to MaxPulse.
Lamp == ToolConfig(TRUE, 0, 0, "random", 0)

InitPulse ==
    InitWith({<<Lamp>>}, {2}, {10 * HalfSecond}, 0 .. MaxPulse, Horizon - 2, 1)

SpecPulse == InitPulse /\ [][Next]_vars

\* A tool list one longer than MAX_TOOLS, of tools without sounds,
\* descriptions, light and motor.
Plain == Quiet(ToolConfig(FALSE, 0, 0, "random", 0))
LongList == [i \in 1 .. (MAX_TOOLS + 1) |-> Plain]

\* The clock reads of a tick during which the clock stands at t.
SameReads(t) == [k \in 1 .. 16 |-> t]

RECURSIVE held_ticks(_, _)
\* The outcome of n more ticks with the trigger down, the clock advancing by
\* one unit before each, after the tick with the outcome r.
held_ticks(r, n) ==
    IF n = 0 THEN r
    ELSE CHOOSE last \in {held_ticks(after, n - 1) :
                              after \in {update(r.s, TRUE, SameReads(r.now + 1))}} : TRUE

\* The program with LongList, toolChangeTimeout = 0.25 s and sleepTimeout =
\* 60 s, after a press at the start that was held through MAX_TOOLS - 1
\* switches, one every second tick: the last loaded tool is active.
InitLoad ==
    /\ config = [tools |-> LongList, tool_change_timeout |-> 1,
                 sleep_timeout |-> 4 * MAX_TOOLS, flash_duration |-> 1, spin_duration |-> 1,
                 refresh_rate |-> QuickRate]
    /\ \E r \in {held_ticks(held_ticks(update(Constructed(config), TRUE,
                                              SameReads(StartTime)),
                                       MAX_TOOLS - 1),
                            MAX_TOOLS - 1)} :
          /\ Program(r.s)
          /\ now = r.now
          /\ limit = [time |-> r.now + Horizon - 2, presses |-> 1]
          /\ ev = r.e
          /\ gest = [pressAt |-> StartTime, pressTool |-> 0, switches |-> MAX_TOOLS - 1,
                     heard |-> None]
          /\ pace = [next_frame |-> r.now, due |-> StartTime, overrun |-> TRUE]
    /\ display = Screen_init(FALSE, FALSE)
    /\ presses = 0
    /\ dims = 0
    /\ sound_log = <<>>
    /\ title = [blend |-> None, full |-> 0]

SpecLoad == InitLoad /\ [][Next]_vars

\* A tap tool and a hold tool at the refresh rates 1, 2 and 4 Hz: the tick
\* period is 4, 2 and 1 time units.
InitLoop ==
    InitRated({<<Tap, Beam>>}, {2}, {10 * HalfSecond}, {1}, {1, 2, 4}, Horizon + 2, 1)

SpecLoop == InitLoop /\ [][Next]_vars

\* A tap tool with the refresh thread started, simulated or on the hardware,
\* with sleepTimeout = 0 and 0.5 s.
InitScreen ==
    /\ InitProgram({<<Tap>>}, {2}, {0, 2}, {1}, {QuickRate}, Horizon - 3, 1)
    /\ display \in {Screen_init(TRUE, simulated) : simulated \in BOOLEAN}

SpecScreen == InitScreen /\ [][NextScreen]_vars

\* One hold tool with 0, 1 or 2 sounds played in order without overlap, and
\* with one overlapping sound, for every sound_replay up to MaxReplay.
ReplayTools ==
    {<<Solo(Quiet(ToolConfig(TRUE, 0, n, "selective", r)))>> :
        n \in {0, 1, 2}, r \in 0 .. MaxReplay}
    \cup {<<Quiet(ToolConfig(TRUE, 0, 1, "random", r))>> : r \in 0 .. MaxReplay}

InitReplay == InitWith(ReplayTools, {2}, {10 * HalfSecond}, {1}, Horizon - 1, 1)

SpecReplay == InitReplay /\ [][Next]_vars

\* ================================================================= claims
Hold(i) == ToolCfg(i).hold
Timeout == config.tool_change_timeout
\* The step handled a press or a release edge.
EdgeStep == button_change' # button_change

\* ---------------------------------------------------------------------- C1
RECURSIVE next_tool_times(_, _)
\* The state after n calls of next_tool().
next_tool_times(S, n) == IF n = 0 THEN S ELSE next_tool_times(next_tool(S, now, now), n - 1)

\* C1: for every tool list of length L >= 1 and every sequence of ticks the
\* active tool index stays in [0, L); and next_tool() called N times from any
\* index returns to that index whenever N is a multiple of L.
C1_ToolIndexInRange ==
    /\ current_tool \in ToolIndices
    /\ \A i \in ToolIndices : \A k \in 0 .. MaxRounds :
         next_tool_times([State EXCEPT !.current_tool = i], k * NumTools).current_tool = i

\* A hold switched twice and came back to the first of two tools.
C1_Witness ==
    /\ NumTools = 2
    /\ ev.switched = 1
    /\ gest.switches = 2
    /\ current_tool = gest.pressTool

\* ---------------------------------------------------------------------- C2
\* The switches of a hold that began on a non-holding tool, against its duration.
C2_SwitchCount ==
    (button_change /\ ~Hold(gest.pressTool))
        => gest.switches <= (now - gest.pressAt) \div Timeout

\* What a tick that switches tools does to triggerHoldStart.
C2_SwitchStep ==
    (ev'.switched = 1 /\ ~Hold(gest.pressTool))
        => /\ now' > trigger_hold + Timeout
           /\ trigger_hold' \in now .. now'
           /\ trigger_hold' - trigger_hold >= Timeout

\* C2: a press on a non-holding tool that is kept down switches tools at most
\* once per toolChangeTimeout of hold time: a switch happens only on a tick
\* whose clock is past triggerHoldStart + toolChangeTimeout, triggerHoldStart
\* is then reset to a clock read of that tick, the switches of a hold of
\* duration D number at most floor(D / toolChangeTimeout), and two switches
\* are never less than toolChangeTimeout apart.
C2_OneSwitchPerTimeout == [](C2_SwitchCount) /\ [][C2_SwitchStep]_vars

\* A hold that began on a non-holding tool has switched twice.
C2_Witness ==
    /\ button_change
    /\ ~Hold(gest.pressTool)
    /\ ev.switched = 1
    /\ gest.switches = 2

\* ---------------------------------------------------------------------- C3
\* C3 as stated: with toolChangeTimeout = 1 s and a hold tool active, a press
\* held for 2.5 s gives at least two tool switches, whatever came before.
C3_TwoSwitchesAlways ==
    (/\ button_change
     /\ Hold(gest.pressTool)
     /\ Timeout = 2 * HalfSecond
     /\ now - gest.pressAt >= 5 * HalfSecond)
        => gest.switches >= 2

\* A hold on a hold tool that no press came before.
C3_NoSwitchWithoutTap ==
    (button_change /\ Hold(gest.pressTool) /\ last_trigger = 0) => gest.switches = 0

\* The tick of the first switch of a hold on a hold tool.
C3_FirstSwitchStep ==
    (ev'.switched = 1 /\ button_change /\ Hold(gest.pressTool) /\ gest.switches = 0)
        => now - last_trigger < HalfSecond + Timeout

\* C3 as amended: with a hold tool active at the press, the first switch of
\* the hold happens only on a tick that starts less than 0.5 s +
\* toolChangeTimeout after lastTriggerReleaseTime; with no earlier press
\* (lastTriggerReleaseTime still 0) the hold never switches tools.
C3_SwitchNeedsTapWindow == [](C3_NoSwitchWithoutTap) /\ [][C3_FirstSwitchStep]_vars

\* The first press ever, on a hold tool, held for 2.5 s: no switch.
C3_Witness ==
    /\ button_change
    /\ Hold(gest.pressTool)
    /\ last_trigger = 0
    /\ Timeout = 2 * HalfSecond
    /\ now - gest.pressAt >= 5 * HalfSecond
    /\ gest.switches = 0
    /\ ev.loop = 1

\* ---------------------------------------------------------------------- C4
\* C4: a press edge calls trigger() exactly once, on the active tool, and no
\* other tick calls it; loop() is never called on a tool whose hold flag is
\* false nor on an edge tick; so with a hold == false tool a press tick
\* followed by a release tick gives one trigger() and no loop().
C4_TriggerOncePerPress ==
    /\ ev.edge = "press" => (ev.trigger = 1 /\ ev.loop = 0 /\ ev.tool = current_tool)
    /\ ev.edge # "press" => ev.trigger = 0
    /\ ev.edge = "release" => ev.loop = 0
    /\ ev.loop > 0 => Hold(ev.tool)
    /\ ~Hold(current_tool) /\ ev.switched = 0 => ev.loop = 0

\* A release tick right after the press tick, on a hold == false tool.
C4_Witness ==
    /\ ev.edge = "release"
    /\ ev.prev = "press"
    /\ ~Hold(ev.tool)
    /\ ev.tool = current_tool

\* ---------------------------------------------------------------------- C5
\* C5: while a hold == false tool with k >= 1 descriptions stays active, its
\* description index is the number of press edges it got, modulo k: every
\* press advances it by one, a release leaves it alone; with k = 3 four
\* press/release pairs give 0, 1, 2, 0, 1.
C5_DescriptionCycles ==
    LET c == ToolCfg(current_tool)
    IN  (~c.hold /\ c.descriptions >= 1 /\ presses < limit.presses)
            => tools[current_tool].description_selector = presses % c.descriptions

\* The fourth release of a tool with three descriptions: index 1.
C5_Witness ==
    /\ ~Hold(current_tool)
    /\ ToolCfg(current_tool).descriptions = 3
    /\ presses = 4
    /\ ev.edge = "release"
    /\ tools[current_tool].description_selector = 1

\* ---------------------------------------------------------------------- C6
\* Sleep mode at the end of a tick, against the clock of its sleep check.
C6_AsleepIffPastDeadline ==
    ev.check > 0 => (sleep_mode <=> ev.check > sleep_timer)

\* What a tick does to sleepDeadline.
C6_DeadlineStep ==
    /\ EdgeStep => \E t \in now .. now' : sleep_timer' = t + config.sleep_timeout
    /\ ~EdgeStep => sleep_timer' = sleep_timer

\* C6: every trigger edge, asleep or not, sets sleepDeadline to a clock read
\* of its tick plus sleepTimeout and nothing else changes sleepDeadline; at
\* the end of a tick sleep mode is on iff the clock read of the tick's sleep
\* check is past sleepDeadline.
C6_SleepDeadline == [](C6_AsleepIffPastDeadline) /\ [][C6_DeadlineStep]_vars

\* Asleep with the trigger still held, after a hold-driven tool switch.
C6_Witness ==
    /\ sleep_mode
    /\ button_change
    /\ gest.switches >= 1
    /\ ev.edge = "none"

\* ---------------------------------------------------------------------- C7
\* The dim commands since the latest edge, against sleep mode.
C7_DimOnce ==
    /\ ev.check > sleep_timer => sleep_mode
    /\ dims = IF sleep_mode THEN 1 ELSE 0
    /\ screen_sleep = sleep_mode
    /\ ev.dim = 1 => sleep_mode

\* The wake command of a tick.
C7_WakeStep == ev'.wake = IF EdgeStep /\ sleep_mode THEN 1 ELSE 0

\* C7: once the clock of a sleep check is past sleepDeadline sleep mode is on,
\* set_sleep(True) has been issued exactly once since the latest edge and is
\* not issued again while asleep; set_sleep(False) is issued exactly on an
\* edge tick that finds the device asleep.
C7_DimAndWakeOnce == [](C7_DimOnce) /\ [][C7_WakeStep]_vars

\* A later tick of a sleep that no edge interrupted: no second dim command.
C7_Witness ==
    /\ sleep_mode
    /\ ev.edge = "none"
    /\ ev.prev = "none"
    /\ ev.dim = 0
    /\ ev.rendered = 0
    /\ dims = 1

\* ---------------------------------------------------------------------- C8
\* C8: at the end of every tick that handled a press or a release edge
\* sleep mode is off, for every sleepTimeout (0 included).
C8_AwakeAfterEdge == ev.edge # "none" => ~sleep_mode

\* ---------------------------------------------------------------------- C9
\* C9: the plays of a tool with sequential sound order since its reset each
\* select (previous index + 1) mod n, so n plays in a row select n distinct
\* indices.
C9_SequentialSounds ==
    LET c == ToolCfg(current_tool)
        n == c.sounds
    IN  (c.sound_order = "selective" /\ n >= 1) =>
           /\ \A j \in 1 .. Len(sound_log) - 1 : sound_log[j + 1] = (sound_log[j] + 1) % n
           /\ Len(sound_log) >= 1 => sound_log[Len(sound_log)] = tools[current_tool].sound_selector
           /\ Len(sound_log) = n => {sound_log[j] : j \in 1 .. n} = 0 .. n - 1

\* Three plays in a row of a tool with three sounds.
C9_Witness ==
    /\ ToolCfg(current_tool).sound_order = "selective"
    /\ ToolCfg(current_tool).sounds = 3
    /\ Len(sound_log) = 3
    /\ ev.played = 1

\* --------------------------------------------------------------------- C10
\* C10: for every tool the description index is in [0, len(descriptions))
\* and the sequential sound index in [0, len(sounds)) when the sequence is
\* non-empty, and 0 when it is empty.
C10_SelectorsInRange ==
    \A i \in ToolIndices :
        LET c == ToolCfg(i)
        IN  /\ tools[i].description_selector \in 0 .. (IF c.descriptions > 0 THEN c.descriptions - 1 ELSE 0)
            /\ tools[i].sound_selector \in 0 .. (IF c.sounds > 0 THEN c.sounds - 1 ELSE 0)

\* A press that left both selectors of the tool at their last index.
C10_Witness ==
    LET c == ToolCfg(current_tool)
    IN  /\ c.descriptions >= 2
        /\ c.sounds >= 2
        /\ c.sound_order = "selective"
        /\ ev.edge = "press"
        /\ presses >= c.descriptions
        /\ tools[current_tool].description_selector = c.descriptions - 1
        /\ tools[current_tool].sound_selector = c.sounds - 1

\* --------------------------------------------------------------------- C11
FadeStart == tools[current_tool].init_timer

\* C11 as stated: once a render blended the title with factor 1, every later
\* render uses the steady cache, so a reset is followed by at most one blend
\* with factor 1.
C11_SteadyAfterFullBlend == title.full <= 1

\* The factors recorded since the reset are blend factors.
C11_FactorInRange ==
    /\ title.blend # None => title.blend \in 0 .. YELLOW_FADE_TIME
    /\ title.full > 0 => title.blend = YELLOW_FADE_TIME

\* A render of the active tool: with the timer cleared it uses the steady
\* cache; with the timer set it blends with min(now - fadeStart, 0.5 s),
\* never less than the render before, 1 from fadeStart + 0.5 s on, and it
\* clears the timer when the clock is past fadeStart + 0.5 s, but not at
\* fadeStart + 0.5 s itself.
C11_RenderStep ==
    ev'.rendered = 1 =>
        IF FadeStart = None
        THEN /\ ev'.blend = None
             /\ ev'.switched = 0 => tools'[current_tool].init_timer = None
        ELSE /\ ev'.blend \in Min(now - FadeStart, YELLOW_FADE_TIME)
                                .. Min(now' - FadeStart, YELLOW_FADE_TIME)
             /\ title.blend # None => ev'.blend >= title.blend
             /\ now >= FadeStart + YELLOW_FADE_TIME => ev'.blend = YELLOW_FADE_TIME
             /\ ev'.switched = 0 =>
                   /\ tools'[current_tool].init_timer \in {None, FadeStart}
                   /\ now > FadeStart + YELLOW_FADE_TIME
                         => tools'[current_tool].init_timer = None
                   /\ now' <= FadeStart + YELLOW_FADE_TIME
                         => tools'[current_tool].init_timer = FadeStart

\* The timer is set again only by the reset() calls of next_tool().
C11_ResetStep ==
    \A k \in ToolIndices :
        tools'[k].init_timer \notin {None, tools[k].init_timer}
            => ev'.switched = 1 /\ k \in {current_tool, current_tool'}

\* C11 (amended): after a reset the blend factor min((now - fadeStart) /
\* 0.5 s, 1) never decreases across renders and is 1 from fadeStart + 0.5 s
\* on; the timer is cleared by the first render that reads a clock later
\* than fadeStart + 0.5 s, and every render after that one uses the steady
\* cache; a render at fadeStart + 0.5 s itself blends with factor 1 and
\* keeps the timer; the timer is set again only by reset().
C11_FadeSaturatesThenClears ==
    [](C11_FactorInRange) /\ [][C11_RenderStep /\ C11_ResetStep]_vars

\* A render uses the steady cache after the blends of the tool reached 1.
C11_Witness ==
    /\ ev.rendered = 1
    /\ ev.blend = None
    /\ title.blend = YELLOW_FADE_TIME
    /\ FadeStart = None

\* --------------------------------------------------------------------- C12
\* C12 as stated: the next-tool branch that tests the timeout alone switches
\* only when the tool active at the start of the tick has hold = false.
C12_TimeoutOnlyForTapTools == ev.via = "timeout" => ~Hold(ev.tool)

\* The holding branch switches a hold tool, and only as the first switch of
\* a hold.
C12_HoldPathFirst == ev.via = "hold" => Hold(ev.tool) /\ gest.switches = 1

\* A switch is made by the holding branch exactly when the active tool holds
\* and no switch happened yet in this hold, and then inside the tap window;
\* every other switch is made by the timeout alone.
C12_SwitchStep ==
    ev'.switched = 1 =>
        /\ button_change /\ button_change'
        /\ now' > trigger_hold + Timeout
        /\ IF Hold(current_tool) /\ ~was_changing_tool
           THEN ev'.via = "hold" /\ now - last_trigger < HalfSecond + Timeout
           ELSE ev'.via = "timeout"

\* Once a switch was made in a hold, a tick that finds the trigger still
\* down and the clock past the timeout switches again, whatever the tool.
C12_TimeoutStep ==
    button_change /\ button_change' /\ was_changing_tool /\ now > trigger_hold + Timeout
        => ev'.switched = 1 /\ ev'.via = "timeout"

\* C12 (amended): with a hold tool active, the trigger held and no switch
\* made yet in this hold, a switch needs the tap window (now - last release
\* < 0.5 s + timeout) and the timeout; the timeout alone switches when the
\* active tool does not hold or a switch was already made in this hold.
C12_HoldSwitchNeedsWindowOnce ==
    [](C12_HoldPathFirst) /\ [][C12_SwitchStep /\ C12_TimeoutStep]_vars

\* A hold that started on a hold tool switches a second time, away from a
\* hold tool, by the timeout alone.
C12_Witness ==
    /\ ev.via = "timeout"
    /\ Hold(ev.tool)
    /\ Hold(gest.pressTool)
    /\ gest.switches = 2

\* --------------------------------------------------------------------- C13
\* C13: the equip cue is played on a tick exactly when the tick handles a
\* release edge and the hold it ends switched tools at least once (so once
\* per such hold); a release never calls trigger(); and _was_changing_tool
\* is false after every release edge, so it is true only with the trigger
\* down.
C13_EquipOnReleaseAfterSwitch ==
    /\ ev.equip = 1 <=> (ev.edge = "release" /\ gest.switches >= 1)
    /\ ev.edge = "release" => ev.trigger = 0 /\ ~was_changing_tool
    /\ was_changing_tool => button_change
    /\ was_changing_tool <=> (button_change /\ gest.switches >= 1)

\* A hold that switched twice is released and the cue plays.
C13_Witness == ev.equip = 1 /\ gest.switches = 2 /\ ~button_change

\* --------------------------------------------------------------------- C14
\* _trigger_hold is set exactly while the stored trigger state is down, and
\* _last_trigger is never None.
C14_HoldSetIffDown ==
    /\ (trigger_hold # None) <=> button_change
    /\ last_trigger # None

\* A tick that runs a held branch (loop() or a switch) finds _trigger_hold set.
C14_HeldStep == ev'.loop = 1 \/ ev'.via # "none" => trigger_hold # None

\* C14: at the end of every tick _trigger_hold is not None exactly when the
\* stored trigger state is down; the held branches compare against a
\* _trigger_hold that is not None; _last_trigger is never None.
C14_HoldStartDefined == [](C14_HoldSetIffDown) /\ [][C14_HeldStep]_vars

\* A held branch runs in a second hold, after a release stored its time.
C14_Witness ==
    /\ button_change
    /\ trigger_hold # None
    /\ last_trigger >= StartTime
    /\ ev.loop = 1

\* --------------------------------------------------------------------- C15
Overlap(i) == ToolCfg(i).sound_overlap

\* C15: a tool with sound_overlap = false stops and drops every tracked
\* handle before it starts a sound, so it tracks at most one handle; and no
\* handle of a tool sounds on untracked: what left the list was stopped or
\* had finished.
C15_OneHandleWithoutOverlap ==
    \A i \in ToolIndices :
        /\ ~Overlap(i) => Tracked(tools, i) <= 1
        /\ tools[i].audible = tools[i].playbacks.playing

\* A tool without overlap starts a sound while its last one still plays.
C15_Witness ==
    /\ ~Overlap(current_tool)
    /\ ev.played = 1
    /\ ev.cut = 1
    /\ tools[current_tool].playbacks = [playing |-> 1, done |-> 0]

\* --------------------------------------------------------------------- C16
\* A tool is as reset() leaves it, but for the time of the reset.
IsReset(t) ==
    /\ t.description_selector = 0
    /\ t.sound_selector = 0
    /\ t.init_timer # None
    /\ t.playbacks = NoPlaybacks
    /\ t.audible = 0

\* Every tool but the active one is reset and tracks no playback.
C16_IdleToolsReset == \A k \in ToolIndices \ {current_tool} : IsReset(tools[k])

\* A switch goes to the next tool and resets the tool it leaves and the
\* tool it reaches, with the clock of the tick; no other tool changes.
C16_SwitchStep ==
    ev'.switched = 1 =>
        /\ current_tool' = next_tool_index(current_tool, NumTools)
        /\ \A k \in {current_tool, current_tool'} :
              IsReset(tools'[k]) /\ tools'[k].init_timer \in now .. now'
        /\ \A k \in ToolIndices \ {current_tool, current_tool'} : tools'[k] = tools[k]

\* C16: next_tool() resets the outgoing and the incoming tool (description
\* index 0, sound index 0, title fade armed, playbacks stopped and
\* cleared) and leaves every other tool unchanged; so every tool but the
\* active one tracks no playback.
C16_NextToolResetsBoth == [](C16_IdleToolsReset) /\ [][C16_SwitchStep]_vars

\* A hold tool of three replays its sound and is switched away from on the
\* same tick: the new handle is stopped by the reset.
C16_Witness ==
    /\ NumTools = MaxTools + 1
    /\ ev.switched = 1
    /\ ev.played = 1
    /\ current_tool # ev.tool
    /\ IsReset(tools[ev.tool])

\* --------------------------------------------------------------------- C17
Light(i) == ToolCfg(i).light
Motor(i) == ToolCfg(i).motor
\* A pulse shorter than the clock can advance inside one tick.
Brief(duration) == \E d \in Drift : d > duration

\* C17 as stated: at the end of a tick that ran loop() the LED of a tool
\* with light and the motor of a tool with motor are on, whatever the
\* durations.
C17_OnThroughHold ==
    ev.loop = 1 =>
        /\ Light(ev.tool) => hardware.led
        /\ Motor(ev.tool) => hardware.motor

\* At the end of a tick that ran loop() the actuators of the tool are on,
\* unless their pulse is brief; a pin is on exactly while its end-time is set.
C17_OnUnlessBrief ==
    /\ hardware.led <=> hardware.led_flash_end # None
    /\ hardware.motor <=> hardware.motor_spin_end # None
    /\ ev.loop = 1 =>
          /\ Light(ev.tool) /\ ~Brief(config.flash_duration) => hardware.led
          /\ Motor(ev.tool) /\ ~Brief(config.spin_duration) => hardware.motor

\* The tick refreshes the pulses of the active tool.
Refreshing == ev'.loop = 1 \/ ev'.trigger = 1

\* An actuator is switched off by GPHardware.update() only, on a tick whose
\* clock exceeds the end-time refreshed last.
C17_OffStep ==
    /\ hardware.led /\ ~hardware'.led => ev'.led_off = 1
    /\ hardware.motor /\ ~hardware'.motor => ev'.motor_off = 1
    /\ ev'.led_off = 1 =>
          /\ ~hardware'.led
          /\ now' > IF Refreshing /\ Light(current_tool)
                    THEN now + config.flash_duration
                    ELSE hardware.led_flash_end
    /\ ev'.motor_off = 1 =>
          /\ ~hardware'.motor
          /\ now' > IF Refreshing /\ Motor(current_tool)
                    THEN now + config.spin_duration
                    ELSE hardware.motor_spin_end

\* C17 (amended): while a hold tool with light (motor) is active and held,
\* every tick refreshes the end-time of the pulse, and GPHardware.update()
\* switches the actuator off only on a tick whose clock exceeds the
\* end-time refreshed last; so it stays on through the hold when the
\* duration is not shorter than the time that passes inside one tick, and
\* with a duration of 0 it can be switched off at the end of a tick.
C17_OffOnlyPastRefreshedEnd == [](C17_OnUnlessBrief) /\ [][C17_OffStep]_vars

\* With flash_duration = 0 the LED is off at the end of a tick of the hold.
C17_Witness ==
    /\ ev.loop = 1
    /\ Light(ev.tool)
    /\ config.flash_duration = 0
    /\ ev.led_off = 1
    /\ ~hardware.led

\* --------------------------------------------------------------------- C18
\* C18 as stated: no tick fails, for every tool list, those longer than
\* MAX_TOOLS included: render(), trigger() and loop() always find the
\* content of the active tool loaded.
C18_NoTickFails == fault = "none" /\ Loaded(current_tool)

\* --------------------------------------------------------------------- C19
\* C19 as stated: every tick calls _manage_playbacks() for the active
\* tool, so that no handle that finished before the tick is tracked at its
\* end.
C19_ReapedEveryTick ==
    ev.check > 0 => ev.reaped >= 1 /\ tools[current_tool].playbacks.done = 0

\* --------------------------------------------------------------------- C20
\* C20 as stated: the frame presented at the end of a tick shows the tool
\* that is active after the tick's input handling, and its description
\* index.
C20_FrameShowsTickResult ==
    ev.presented = 1 =>
        image = [tool |-> current_tool,
                 description |-> tools[current_tool].description_selector]

\* ---------------------------------------------------------------- C21
\* C21 (the claim as made): while no tick has ended after its deadline, the
\* deadline main() holds after k ticks is start + k / refresh_rate; the
\* time update() takes and the overshoot of time.sleep() do not add up in
\* the schedule.
C21_DeadlineOnSchedule == ~pace.overrun => pace.next_frame = pace.due

\* ---------------------------------------------------------------- C22
\* C22 (the claim as made): with the refresh thread running, the thread
\* never reads a surface while the main tick writes that surface: not the
\* image during render(), not the buffer during the copy from the image.
C22_NoReadWhileWritten == display.reads = "none" \/ display.reads # Written

\* ---------------------------------------------------------------- C23
Replay(i) == ToolCfg(i).sound_replay

\* _replay_timer of the tool that was pressed is the clock read of its
\* latest play() plus sound_replay.
C23_NextReplayTime ==
    gest.heard # None => tools[gest.pressTool].replay_timer = gest.heard + Replay(gest.pressTool)

\* With sound_replay = 0 a hold tick starts no sound.
C23_NoReplayWithoutInterval == ev.loop = 1 /\ Replay(ev.tool) = 0 => ev.played = 0

\* A hold tick starts a sound only with sound_replay # 0, with sounds, and
\* at a clock value after _replay_timer; the sound before it in the hold is
\* more than sound_replay older.
C23_ReplayStep ==
    ev'.loop = 1 /\ ev'.played = 1
        => /\ Replay(ev'.tool) # 0
           /\ ToolCfg(ev'.tool).sounds > 0
           /\ ev'.heard > tools[ev'.tool].replay_timer
           /\ gest.heard # None => ev'.heard - gest.heard > Replay(ev'.tool)

\* C23: a hold tick starts a sound only if sound_replay # 0, sounds exist
\* and the clock is past _replay_timer, which is the time of the tool's
\* latest play() plus sound_replay; with sound_replay = 0 no hold tick
\* starts a sound, and two consecutive plays of a hold are more than
\* sound_replay apart.
C23_ReplayNeedsInterval ==
    [](C23_NextReplayTime /\ C23_NoReplayWithoutInterval) /\ [][C23_ReplayStep]_vars

\* A hold tick replays a sound of a tool that has played before in the hold.
C23_Witness ==
    /\ ev.loop = 1
    /\ ev.played = 1
    /\ Replay(ev.tool) = MaxReplay
    /\ gest.heard = ev.heard
    /\ gest.heard > gest.pressAt

====
